---- MODULE Spec2Model ----
(***************************************************************************)
(* Model of dual_text (src/app/app.py): the dual letter stacking loop,     *)
(* the support pegs, the base plate, the final centering and the exports.  *)
(*                                                                         *)
(* Lengths are fixed-point integers, Unit ticks per length unit, so that   *)
(* the percentages (over 100), the skip gap (times 1.5) and the halvings  *)
(* of the code stay exact.  Slider values with step 0.1 are in tenths,     *)
(* percentages as the integer the slider shows.                            *)
(*                                                                         *)
(* The solid modelling kernel (cadquery) is outside the repository: what  *)
(* it answers for a pair of glyphs (a bounding box, or an exception) is a  *)
(* nondeterministic choice of each loop iteration.                         *)
(*                                                                         *)
(* Spec is one call of dual_text in detail.  SpecUI is the page around it: *)
(* the session flags, the Render callback and the script reruns of two     *)
(* browser sessions, with the call reduced to its control points.          *)
(* SpecTwice is two successive calls with the same arguments.              *)
(***************************************************************************)
EXTENDS Integers, Sequences, FiniteSets, TLC

\* ----------------------------------------------------------------- bounds
MaxLen == 3

Unit == 4 * 100
Tenth == Unit \div 10

\* ------------------------------------------------------------ input sets
Alpha1 == <<"A", "B", "C", "D", "E">>
Alpha2 == <<"V", "W", "X", "Y", "Z">>
FontSizes == {4, 20}
SpacePcts == {0, 30, 200}
PegHeights == {0, 10}
PegRadii == {10, 20}
BaseHeights == {0, 10}
BasePads == {0, 20}
FilletPcts == {0, 80, 100}
Formats == {"stl", "step"}

\* bounding boxes the kernel may report for the intersection of two glyphs
\* (before the stacking translation), in ticks
GlyphBoxes ==
  { [xmin |-> -2 * Unit, xmax |-> 2 * Unit, ymin |-> -2 * Unit, ymax |-> 2 * Unit,
     zmin |-> 0, zmax |-> 4 * Unit],
    [xmin |-> -1 * Unit, xmax |-> 3 * Unit, ymin |-> Unit, ymax |-> 2 * Unit,
     zmin |-> 0, zmax |-> 3 * Unit] }

Texts(alpha) == { SubSeq(alpha, 1, n) : n \in 0..MaxLen }

\* peg masks: empty (toggle off), the default 'X', '_' and a third character,
\* shorter than, as long as and longer than the texts
Masks ==
  { <<>>, <<"X">>, <<"_">>, <<"Y">>, <<"Y", "_">>, <<"_", "X">>, <<"X", "X">>,
    <<"X", "_", "Y">> }

\* --------------------------------------------------------------- helpers
Min2(a, b) == IF a <= b THEN a ELSE b

SetMin(S) == CHOOSE m \in S : \A x \in S : m <= x

SetMax(S) == CHOOSE m \in S : \A x \in S : m >= x

\* variant of zip that runs to the end of the longer text (zip_longest)
RECURSIVE ZipLongest(_, _)
ZipLongest(s, t) ==
  IF s = <<>> /\ t = <<>> THEN <<>>
  ELSE << <<IF s = <<>> THEN " " ELSE Head(s), IF t = <<>> THEN " " ELSE Head(t)>> >>
       \o ZipLongest(IF s = <<>> THEN s ELSE Tail(s), IF t = <<>> THEN t ELSE Tail(t))

\* zip(text1, text2): stops as soon as either iterable is exhausted
RECURSIVE Zip(_, _)
Zip(s, t) ==
  IF s = <<>> \/ t = <<>> THEN <<>>
  ELSE << <<Head(s), Head(t)>> >> \o Zip(Tail(s), Tail(t))

\* space = fontsize*space_per, space_per being the slider percentage / 100
Space(fs, pct) == (fs * pct * Unit) \div 100

\* variants of the skip gap: the plain spacing, and half of it
SkipGapPlain(space) == space

SkipGapHalf(space) == space \div 2

\* last_ymax += space*1.5
SkipGap(space) == (space * 3) \div 2

\* variants of the stacking translation: without the "if ind" test, and
\* without the high-water mark
TranslateYAlways(i, ymin, mark, space) == (0 - ymin) + (mark + space)

TranslateYNoMark(i, ymin, mark, space) ==
  IF i # 0 THEN (0 - ymin) + space ELSE 0 - ymin

\* translate_vect[1]: -b_box.ymin, plus last_ymax + space when ind is not 0
TranslateY(i, ymin, mark, space) ==
  IF i # 0 THEN (0 - ymin) + (mark + space) ELSE 0 - ymin

\* translate_vect = [0, -b_box.ymin, 0], then [1] += last_ymax + space
TranslateVect(i, ymin, mark, space) == <<0, TranslateY(i, ymin, mark, space), 0>>

\* shape.translate(v) as seen on the bounding box
Translate(b, v) ==
  [xmin |-> b.xmin + v[1], xmax |-> b.xmax + v[1],
   ymin |-> b.ymin + v[2], ymax |-> b.ymax + v[2],
   zmin |-> b.zmin + v[3], zmax |-> b.zmax + v[3]]

\* variants of the peg condition: only 'X' is active, and no length test
PegCondOnlyX(mask, i) ==
  IF mask = <<>> THEN "no"
  ELSE IF ~(Len(mask) > i) THEN "no"
  ELSE IF mask[i + 1] = "X" THEN "yes" ELSE "no"

PegCondNoLen(mask, i) ==
  IF mask = <<>> THEN "no"
  ELSE IF i + 1 > Len(mask) THEN "raise"
  ELSE IF mask[i + 1] # "_" THEN "yes" ELSE "no"

\* extrab_mask and len(extrab_mask) > ind and extrab_mask[ind] != '_'
\* ("raise" is the IndexError of an out-of-range subscript)
PegCond(mask, i) ==
  IF mask = <<>> THEN "no"
  ELSE IF ~(Len(mask) > i) THEN "no"
  ELSE IF i + 1 > Len(mask) THEN "raise"
  ELSE IF mask[i + 1] # "_" THEN "yes" ELSE "no"

\* circle(extrab_rad//2): floor division of the slider value (tenths) by 2
PegRadius(rad) == (rad \div 20) * Unit

\* .extrude(extrab_h)
PegHeight(h) == h * Tenth

\* the kernel cannot build a cylinder of radius 0 or height 0
PegRaises(rad, h) == PegRadius(rad) = 0 \/ PegHeight(h) = 0

\* lines 71-76 as a whole: "no" (condition false), "yes" (peg built) or
\* "raise" (the condition or the construction raised)
PegOutcome(mask, i, rad, h) ==
  IF PegCond(mask, i) = "no" THEN "no"
  ELSE IF PegCond(mask, i) = "raise" \/ PegRaises(rad, h) THEN "raise"
  ELSE "yes"

\* Workplane('XY').circle(r).extrude(h): a cylinder on the origin
Cylinder(r, h) ==
  [xmin |-> 0 - r, xmax |-> r, ymin |-> 0 - r, ymax |-> r, zmin |-> 0, zmax |-> h]

\* the peg of lines 72-76, translated by translate_vect
PegBox(rad, h, tv) == Translate(Cylinder(PegRadius(rad), PegHeight(h)), tv)

\* Assembly.toCompound().BoundingBox() of a non-empty assembly
BoundingBox(parts) ==
  [xmin |-> SetMin({ parts[i].box.xmin : i \in DOMAIN parts }),
   xmax |-> SetMax({ parts[i].box.xmax : i \in DOMAIN parts }),
   ymin |-> SetMin({ parts[i].box.ymin : i \in DOMAIN parts }),
   ymax |-> SetMax({ parts[i].box.ymax : i \in DOMAIN parts }),
   zmin |-> SetMin({ parts[i].box.zmin : i \in DOMAIN parts }),
   zmax |-> SetMax({ parts[i].box.zmax : i \in DOMAIN parts })]

xlen(b) == b.xmax - b.xmin

ylen(b) == b.ymax - b.ymin

\* the bounding box of an empty compound is void: asking for it raises
BoundingBoxRaises(parts) == parts = <<>>

\* Workplane().box(l, w, h, centered=(1,0,0)): centred on x only
Box(l, w, h) ==
  [xmin |-> 0 - (l \div 2), xmax |-> l \div 2, ymin |-> 0, ymax |-> w,
   zmin |-> 0, zmax |-> h]

\* the kernel cannot build a box with a zero dimension
BoxRaises(l, w, h) == l <= 0 \/ w <= 0 \/ h <= 0

\* b_pad and b_h (slider tenths) in ticks
Ticks(tenths) == tenths * Tenth

\* variant of the base plate that is not lowered by b_h
BasePlateNotLowered(bb, pad, h) ==
  Translate(Box(xlen(bb) + Ticks(pad) * 2, ylen(bb) + Ticks(pad) * 2, Ticks(h)),
            <<0, 0 - Ticks(pad), 0>>)

\* box(b_box.xlen+b_pad*2, b_box.ylen+b_pad*2, b_h).translate([0,-b_pad,-b_h])
BasePlate(bb, pad, h) ==
  Translate(Box(xlen(bb) + Ticks(pad) * 2, ylen(bb) + Ticks(pad) * 2, Ticks(h)),
            <<0, 0 - Ticks(pad), 0 - Ticks(h)>>)

\* fillet(b_box.xlen/2*b_fil_per), b_fil_per being the slider percentage / 100
FilletRadius(bb, pct) == ((xlen(bb) \div 2) * pct) \div 100

\* what the kernel can answer to a fillet of the four vertical edges of an
\* l by w plate: radius 0 and a radius beyond half the shorter side fail,
\* exactly half the shorter side leaves an edge of length 0 and may fail
FilletOutcomes(r, l, w) ==
  IF r <= 0 \/ 2 * r > Min2(l, w) THEN {"raise"}
  ELSE IF 2 * r = Min2(l, w) THEN {"ok", "raise"}
  ELSE {"ok"}

\* lines 80-87 as a whole
BaseOutcomes(parts, pad, h, pct) ==
  IF BoundingBoxRaises(parts) THEN {"raise"}
  ELSE LET bb == BoundingBox(parts)
           l == xlen(bb) + Ticks(pad) * 2
           w == ylen(bb) + Ticks(pad) * 2
       IN IF BoxRaises(l, w, Ticks(h)) THEN {"raise"}
          ELSE FilletOutcomes(FilletRadius(bb, pct), l, w)

\* variant of the final translation: half the x extent, along x
CenterVectOnX(bb) == <<0 - (xlen(bb) \div 2), 0, 0>>

\* res.translate([0, -b_box.ylen/2, 0]) of the compound
CenterVect(bb) == <<0, 0 - (ylen(bb) \div 2), 0>>

TranslateAll(parts, v) ==
  [i \in DOMAIN parts |-> [parts[i] EXCEPT !.box = Translate(@, v)]]

\* f"{export_name}.{save}" with the default export_name 'file'
OutName(fmt) == IF fmt = "stl" THEN "file.stl" ELSE "file.step"

FileNames == {"file_display.stl", "file.stl", "file.step"}

\* ------------------------------------------------------------------ state
VARIABLES pc, text1, text2, extrab_mask, fontsize, space_per,
          extrab_h, extrab_rad, b_h, b_pad, b_fil_per, save,
          ind, last_ymax, res, log, b_box, files,
          render_requested, rendering_complete, run, cause, last, first

vars == <<pc, text1, text2, extrab_mask, fontsize, space_per,
          extrab_h, extrab_rad, b_h, b_pad, b_fil_per, save,
          ind, last_ymax, res, log, b_box, files,
          render_requested, rendering_complete, run, cause, last, first>>

\* the browser sessions served by the one process: each has its own
\* st.session_state and its own script thread, all share the working directory
Sessions == {"s1", "s2"}

\* per session: the two flags of st.session_state, where its script run
\* stands, what triggered that run, and how its last render ended
ui == <<render_requested, rendering_complete, run, cause, last>>

\* a file that was never written, and a file holding an exported compound
NoFile == [present |-> FALSE, whole |-> FALSE, parts |-> <<>>]

FileOf(parts) == [present |-> TRUE, whole |-> TRUE, parts |-> parts]

\* a file whose writing stopped midway: it exists and holds no usable compound
PartialFile == [present |-> TRUE, whole |-> FALSE, parts |-> <<>>]

\* what a failing export leaves under the name f: exporters.export writes
\* straight to the final name, so the old content or a truncated file
FailedWrite(f) == {files[f], PartialFile}

NoBox == [xmin |-> 0, xmax |-> 0, ymin |-> 0, ymax |-> 0, zmin |-> 0, zmax |-> 0]

\* the arguments of dual_text; fontsize is not one of them: dual_text and
\* letter read it, and extr = fontsize*2, from the module globals of the script
params == <<text1, text2, extrab_mask, space_per,
            extrab_h, extrab_rad, b_h, b_pad, b_fil_per, save>>

\* the first finished call, kept to compare a second one with it: its
\* arguments, the global font size, the kernel's answers, the final box
NoCall == [n |-> 0, params |-> <<>>, fontsize |-> 0, glyphs |-> <<>>, bbox |-> NoBox]

args == <<text1, text2, extrab_mask, fontsize, space_per,
          extrab_h, extrab_rad, b_h, b_pad, b_fil_per, save>>

space == Space(fontsize, space_per)

Pairs == Zip(text1, text2)

\* before the call: no frame yet; the parameters hold the defaults of the
\* signature (lines 49-53) and fontsize the default of its widget (line 180)
Init ==
  /\ pc = "idle"
  /\ text1 = <<>> /\ text2 = <<>> /\ extrab_mask = <<>>
  /\ fontsize = 20 /\ space_per = 30
  /\ extrab_h = 10 /\ extrab_rad = 20
  /\ b_h = 20 /\ b_pad = 20 /\ b_fil_per = 80 /\ save = "stl"
  /\ ind = 0 /\ last_ymax = 0 /\ res = <<>> /\ log = <<>>
  /\ b_box = NoBox
  /\ files = [f \in FileNames |-> NoFile]
  /\ render_requested = [s \in Sessions |-> FALSE]
  /\ rendering_complete = [s \in Sessions |-> FALSE]
  /\ run = [s \in Sessions |-> "wait"]
  /\ cause = [s \in Sessions |-> "none"]
  /\ last = [s \in Sessions |-> "none"]
  /\ first = NoCall

\* variant of line 58: the mark is not reset when dual_text is entered
EntryMarkKept(old) == old

\* line 58: last_ymax = 0, whatever an earlier call left
EntryMark(old) == 0

\* dual_text(...) is entered with arguments and font size from the given
\* sets: arguments bound, space computed, the assembly started, last_ymax = 0
CallWith(T1, T2, M, FS, SP, PH, PR) ==
  /\ pc = "idle"
  /\ text1' \in T1
  /\ text2' \in T2
  /\ extrab_mask' \in M
  /\ fontsize' \in FS
  /\ space_per' \in SP
  /\ extrab_h' \in PH
  /\ extrab_rad' \in PR
  /\ b_h' = b_h /\ b_pad' = b_pad /\ b_fil_per' = b_fil_per /\ save' = save
  /\ ind' = 0 /\ last_ymax' = EntryMark(last_ymax) /\ res' = <<>> /\ log' = <<>>
  /\ pc' = "loop"
  /\ UNCHANGED <<b_box, files>>
  /\ UNCHANGED <<ui, first>>

Call ==
  /\ first.n = 0
  /\ CallWith(Texts(Alpha1), Texts(Alpha2), Masks, FontSizes, SpacePcts,
              PegHeights, PegRadii)

\* one iteration whose try body raises before the solid is placed
\* (letter, intersection or bounding box): except: last_ymax += space*1.5
SkipPair ==
  /\ pc = "loop"
  /\ ind < Len(Pairs)
  /\ last_ymax' = last_ymax + SkipGap(space)
  /\ log' = Append(log, [ind |-> ind, ab |-> Pairs[ind + 1], out |-> "skip",
                         mark0 |-> last_ymax, tv |-> <<0, 0, 0>>, box |-> NoBox])
  /\ ind' = ind + 1
  /\ UNCHANGED <<pc, res, args, b_box, files>>
  /\ UNCHANGED <<ui, first>>

\* lines 61-70: the pair solid is built, translated and added
PlacePair ==
  /\ pc = "loop"
  /\ ind < Len(Pairs)
  /\ \E g_box \in GlyphBoxes :
       LET tv == TranslateVect(ind, g_box.ymin, last_ymax, space)
           placed == Translate(g_box, tv)
       IN /\ last_ymax' = placed.ymax
          /\ res' = Append(res, [kind |-> "pair", ind |-> ind, box |-> placed, tv |-> tv])
          /\ log' = Append(log, [ind |-> ind, ab |-> Pairs[ind + 1], out |-> "placed",
                                 mark0 |-> last_ymax, tv |-> tv, box |-> placed])
  /\ pc' = "peg"
  /\ UNCHANGED <<ind, args, b_box, files>>
  /\ UNCHANGED <<ui, first>>

SetOut(l, o) == [l EXCEPT ![Len(l)].out = o]

\* line 71 is false: no peg, next iteration
NoPeg ==
  /\ pc = "peg"
  /\ PegOutcome(extrab_mask, ind, extrab_rad, extrab_h) = "no"
  /\ ind' = ind + 1
  /\ pc' = "loop"
  /\ UNCHANGED <<last_ymax, res, log, args, b_box, files>>
  /\ UNCHANGED <<ui, first>>

\* lines 72-76: the peg is built, translated by translate_vect and added
AddPeg ==
  /\ pc = "peg"
  /\ PegOutcome(extrab_mask, ind, extrab_rad, extrab_h) = "yes"
  /\ LET translate_vect == log[Len(log)].tv
     IN res' = Append(res, [kind |-> "peg", ind |-> ind,
                            box |-> PegBox(extrab_rad, extrab_h, translate_vect),
                            tv |-> translate_vect])
  /\ log' = SetOut(log, "peg")
  /\ ind' = ind + 1
  /\ pc' = "loop"
  /\ UNCHANGED <<last_ymax, args, b_box, files>>
  /\ UNCHANGED <<ui, first>>

\* lines 71-76 raise after the pair solid was added: the bare except of
\* line 77 still applies last_ymax += space*1.5
PegRaise ==
  /\ pc = "peg"
  /\ PegOutcome(extrab_mask, ind, extrab_rad, extrab_h) = "raise"
  /\ last_ymax' = last_ymax + SkipGap(space)
  /\ log' = SetOut(log, "pegfail")
  /\ ind' = ind + 1
  /\ pc' = "loop"
  /\ UNCHANGED <<res, args, b_box, files>>
  /\ UNCHANGED <<ui, first>>

\* the base arguments a render can pass: the sliders of lines 212-216
BaseArgs ==
  { a \in [h : BaseHeights, pad : BasePads, pct : FilletPcts] :
      a.h * 2 <= fontsize * 10 /\ a.pad * 2 <= fontsize * 10 }

\* lines 80-87 succeed: the bounding box is taken and the filleted plate added
\* (b_h, b_pad and b_fil_per are first read here, so they are drawn here)
BuildBase ==
  /\ pc = "loop"
  /\ ind >= Len(Pairs)
  /\ \E a \in BaseArgs :
       /\ "ok" \in BaseOutcomes(res, a.pad, a.h, a.pct)
       /\ b_h' = a.h /\ b_pad' = a.pad /\ b_fil_per' = a.pct
       /\ b_box' = BoundingBox(res)
       /\ res' = Append(res, [kind |-> "base", ind |-> Len(Pairs),
                              box |-> BasePlate(BoundingBox(res), a.pad, a.h),
                              tv |-> <<0, 0 - Ticks(a.pad), 0 - Ticks(a.h)>>])
  /\ pc' = "final"
  /\ UNCHANGED <<text1, text2, extrab_mask, fontsize, space_per, extrab_h,
                 extrab_rad, save, ind, last_ymax, log, files>>
  /\ UNCHANGED <<ui, first>>

\* lines 80-87 raise (void bounding box, degenerate box or fillet): the
\* exception leaves dual_text, nothing is exported
BaseRaise ==
  /\ pc = "loop"
  /\ ind >= Len(Pairs)
  /\ \E a \in BaseArgs :
       /\ "raise" \in BaseOutcomes(res, a.pad, a.h, a.pct)
       /\ b_h' = a.h /\ b_pad' = a.pad /\ b_fil_per' = a.pct
  /\ b_box' = IF BoundingBoxRaises(res) THEN b_box ELSE BoundingBox(res)
  /\ pc' = "raised"
  /\ UNCHANGED <<text1, text2, extrab_mask, fontsize, space_per, extrab_h,
                 extrab_rad, save, ind, last_ymax, res, log, files>>
  /\ UNCHANGED <<ui, first>>

\* lines 89-90: the assembly becomes one compound, translated by -ylen/2 on y
Finalize ==
  /\ pc = "final"
  /\ res' = TranslateAll(res, CenterVect(b_box))
  /\ pc' = "export"
  /\ UNCHANGED <<args, ind, last_ymax, log, b_box, files>>
  /\ UNCHANGED <<ui, first>>

\* line 92: the preview file
ExportDisplay ==
  /\ pc = "export"
  /\ files' = [files EXCEPT !["file_display.stl"] = FileOf(res)]
  /\ pc' = "export2"
  /\ UNCHANGED <<args, ind, last_ymax, res, log, b_box>>
  /\ UNCHANGED <<ui, first>>

\* line 92 raises (I/O error): nothing catches it, dual_text raises
ExportDisplayFail ==
  /\ pc = "export"
  /\ \E left \in FailedWrite("file_display.stl") :
       files' = [files EXCEPT !["file_display.stl"] = left]
  /\ pc' = "raised"
  /\ UNCHANGED <<args, ind, last_ymax, res, log, b_box>>
  /\ UNCHANGED <<ui, first>>

\* line 93: the output file in the requested format, then dual_text returns
ExportFile ==
  /\ pc = "export2"
  /\ \E fmt \in Formats :
       /\ save' = fmt
       /\ files' = [files EXCEPT ![OutName(fmt)] = FileOf(res)]
  /\ pc' = "done"
  /\ UNCHANGED <<text1, text2, extrab_mask, fontsize, space_per, extrab_h,
                 extrab_rad, b_h, b_pad, b_fil_per, ind, last_ymax, res, log, b_box>>
  /\ UNCHANGED <<ui, first>>

\* line 93 raises (I/O error) after the preview file was written
ExportFileFail ==
  /\ pc = "export2"
  /\ \E fmt \in Formats :
       /\ save' = fmt
       /\ \E left \in FailedWrite(OutName(fmt)) :
            files' = [files EXCEPT ![OutName(fmt)] = left]
  /\ pc' = "raised"
  /\ UNCHANGED <<text1, text2, extrab_mask, fontsize, space_per, extrab_h,
                 extrab_rad, b_h, b_pad, b_fil_per, ind, last_ymax, res, log, b_box>>
  /\ UNCHANGED <<ui, first>>

Next ==
  \/ Call \/ SkipPair \/ PlacePair \/ NoPeg \/ AddPeg \/ PegRaise
  \/ BuildBase \/ BaseRaise \/ Finalize \/ ExportDisplay \/ ExportFile
  \/ ExportDisplayFail \/ ExportFileFail

Spec == Init /\ [][Next]_vars

\* ------------------------------------------------- the page, per session
\* The script of one session between two browser events; dual_text (or
\* heartLampRendering) is reduced to its control points: the build, the two
\* exports, the return. Spec above is the build and the exports in detail.
frame == <<pc, text1, text2, extrab_mask, fontsize, space_per,
           extrab_h, extrab_rad, b_h, b_pad, b_fil_per, save,
           ind, last_ymax, res, log, b_box>>

\* lines 141-146: every script run first removes the files named *file*
Cleanup == [f \in FileNames |-> NoFile]

\* line 259
RenderDue(req, done) == req /\ ~done

\* the Render button: on_render_click runs, then the script reruns and
\* reaches line 259 with the flags the callback has set
RenderClick(s) ==
  /\ run[s] = "wait"
  /\ render_requested' = [render_requested EXCEPT ![s] = TRUE]
  /\ rendering_complete' = [rendering_complete EXCEPT ![s] = FALSE]
  /\ cause' = [cause EXCEPT ![s] = "click"]
  /\ files' = Cleanup
  /\ run' = [run EXCEPT ![s] =
               IF RenderDue(render_requested'[s], rendering_complete'[s])
               THEN "build" ELSE "wait"]
  /\ UNCHANGED <<last, frame, first>>

\* any other event of the page (a text typed, a slider moved, a special
\* character button, the first load): the script reruns without the callback
Rerun(s) ==
  /\ run[s] = "wait"
  /\ cause' = [cause EXCEPT ![s] = "other"]
  /\ files' = Cleanup
  /\ run' = [run EXCEPT ![s] =
               IF RenderDue(render_requested[s], rendering_complete[s])
               THEN "build" ELSE "wait"]
  /\ UNCHANGED <<render_requested, rendering_complete, last, frame, first>>

\* lines 263-272 up to the exports: the geometry was built
Build(s) ==
  /\ run[s] = "build"
  /\ run' = [run EXCEPT ![s] = "export"]
  /\ UNCHANGED <<render_requested, rendering_complete, cause, last, files, frame, first>>

\* the build raises (line 80 or 82-87): nothing catches it, the script run
\* ends and lines 275-276 are not reached
BuildRaise(s) ==
  /\ run[s] = "build"
  /\ run' = [run EXCEPT ![s] = "wait"]
  /\ last' = [last EXCEPT ![s] = "raised"]
  /\ UNCHANGED <<render_requested, rendering_complete, cause, files, frame, first>>

\* what a successful export by s leaves under the name f: the compound, or,
\* when another session is exporting too, possibly an interleaving of both
Written(s, at) ==
  IF \E t \in Sessions \ {s} : run[t] = at
  THEN {FileOf(<<>>), PartialFile}
  ELSE {FileOf(<<>>)}

\* line 92 in session s
WriteDisplay(s) ==
  /\ run[s] = "export"
  /\ \E w \in Written(s, "export") :
       files' = [files EXCEPT !["file_display.stl"] = w]
  /\ run' = [run EXCEPT ![s] = "export2"]
  /\ UNCHANGED <<render_requested, rendering_complete, cause, last, frame, first>>

\* line 92 raises in session s
WriteDisplayFail(s) ==
  /\ run[s] = "export"
  /\ \E left \in FailedWrite("file_display.stl") :
       files' = [files EXCEPT !["file_display.stl"] = left]
  /\ run' = [run EXCEPT ![s] = "wait"]
  /\ last' = [last EXCEPT ![s] = "raised"]
  /\ UNCHANGED <<render_requested, rendering_complete, cause, frame, first>>

\* line 93 in session s, then the call returns
WriteFile(s) ==
  /\ run[s] = "export2"
  /\ \E fmt \in Formats, w \in Written(s, "export2") :
       files' = [files EXCEPT ![OutName(fmt)] = w]
  /\ run' = [run EXCEPT ![s] = "return"]
  /\ UNCHANGED <<render_requested, rendering_complete, cause, last, frame, first>>

\* line 93 raises in session s
WriteFileFail(s) ==
  /\ run[s] = "export2"
  /\ \E fmt \in Formats :
       \E left \in FailedWrite(OutName(fmt)) :
         files' = [files EXCEPT ![OutName(fmt)] = left]
  /\ run' = [run EXCEPT ![s] = "wait"]
  /\ last' = [last EXCEPT ![s] = "raised"]
  /\ UNCHANGED <<render_requested, rendering_complete, cause, frame, first>>

\* lines 275-276, then the results are shown and the script run ends
RenderDone(s) ==
  /\ run[s] = "return"
  /\ rendering_complete' = [rendering_complete EXCEPT ![s] = TRUE]
  /\ render_requested' = [render_requested EXCEPT ![s] = FALSE]
  /\ last' = [last EXCEPT ![s] = "completed"]
  /\ run' = [run EXCEPT ![s] = "wait"]
  /\ UNCHANGED <<cause, files, frame, first>>

NextUI ==
  \/ \E s \in Sessions : RenderClick(s)
  \/ \E s \in Sessions : Rerun(s)
  \/ \E s \in Sessions : Build(s)
  \/ \E s \in Sessions : BuildRaise(s)
  \/ \E s \in Sessions : WriteDisplay(s)
  \/ \E s \in Sessions : WriteDisplayFail(s)
  \/ \E s \in Sessions : WriteFile(s)
  \/ \E s \in Sessions : WriteFileFail(s)
  \/ \E s \in Sessions : RenderDone(s)

SpecUI == Init /\ [][NextUI]_vars

\* --------------------------------------------- two calls in one process
\* dual_text is called, returns, and is called again with the same
\* arguments; between the calls the script was rerun and the Font size
\* widget may have changed. The kernel is a function of its request: for the
\* same letters at the same font size it answers as it did the first time.
TwiceText1 == {<<"A", "B">>}

TwiceText2 == {<<"V", "W">>}

TwiceMasks == {<<>>, <<"X">>}

TwiceSpacePcts == {30}

TwicePegHeights == {10}

\* the kernel's answer that the iteration e of the log records
GlyphOf(e) ==
  IF e.out = "skip" THEN [ok |-> FALSE, box |-> NoBox]
  ELSE [ok |-> TRUE, box |-> Translate(e.box, <<0, 0 - e.tv[2], 0>>)]

Glyphs(l) == [k \in DOMAIN l |-> GlyphOf(l[k])]

\* in a second call at the same font size the kernel repeats its answers
Replayed(l) ==
  (first.n = 1 /\ fontsize = first.fontsize) =>
    \A k \in DOMAIN l : GlyphOf(l[k]) = first.glyphs[k]

\* in a second call the arguments read late are those of the first call
SameBase(h, pad, pct) ==
  first.n = 1 => <<h, pad, pct>> = <<first.params[7], first.params[8], first.params[9]>>

SameSave(fmt) == first.n = 1 => fmt = first.params[10]

CallFirst ==
  /\ first.n = 0
  /\ CallWith(TwiceText1, TwiceText2, TwiceMasks, FontSizes, TwiceSpacePcts,
              TwicePegHeights, PegRadii)

TwSkipPair == SkipPair /\ Replayed(log')

TwPlacePair == PlacePair /\ Replayed(log')

TwBuildBase == BuildBase /\ SameBase(b_h', b_pad', b_fil_per')

TwBaseRaise == BaseRaise /\ SameBase(b_h', b_pad', b_fil_per')

TwExportFile == ExportFile /\ SameSave(save')

TwExportFileFail == ExportFileFail /\ SameSave(save')

\* dual_text returns (after line 93) and the script run ends
Return ==
  /\ pc = "done"
  /\ first.n = 0
  /\ first' = [n |-> 1, params |-> params, fontsize |-> fontsize,
               glyphs |-> Glyphs(log), bbox |-> BoundingBox(res)]
  /\ pc' = "idle"
  /\ UNCHANGED <<args, ind, last_ymax, res, log, b_box, files, ui>>

\* a later script run (lines 141-146, 180) calls dual_text again with the
\* same arguments; the Font size widget holds any of its values
CallAgain ==
  /\ pc = "idle"
  /\ first.n = 1
  /\ fontsize' \in FontSizes
  /\ ind' = 0 /\ last_ymax' = EntryMark(last_ymax) /\ res' = <<>> /\ log' = <<>>
  /\ b_box' = NoBox
  /\ files' = Cleanup
  /\ pc' = "loop"
  /\ UNCHANGED <<params, ui, first>>

NextTwice ==
  \/ CallFirst \/ TwSkipPair \/ TwPlacePair \/ NoPeg \/ AddPeg \/ PegRaise
  \/ TwBuildBase \/ TwBaseRaise \/ Finalize \/ ExportDisplay \/ TwExportFile
  \/ ExportDisplayFail \/ TwExportFileFail \/ Return \/ CallAgain

SpecTwice == Init /\ [][NextTwice]_vars

\* ------------------------------------------------- reading the iterations
\* log[k] is the iteration of index k-1; it is complete once the peg step ran
Complete(k) == k < Len(log) \/ pc # "peg"

Valid(k) == log[k].out # "skip"

\* last_ymax as iteration k left it
MarkAfter(k) == IF k < Len(log) THEN log[k + 1].mark0 ELSE last_ymax

PartsOf(i) == { p \in DOMAIN res : res[p].ind = i /\ res[p].kind # "base" }

PegsOf(i) == { p \in DOMAIN res : res[p].ind = i /\ res[p].kind = "peg" }

LoopOver == pc \in {"final", "export", "export2", "done", "raised"}

\* the first valid iteration after k, if any
NextValid(k, j) ==
  /\ j \in (k + 1)..Len(log)
  /\ Valid(j)
  /\ \A m \in (k + 1)..(j - 1) : ~Valid(m)

C2_BarePlateCompletes ==
  (\A k \in 1..Len(log) : ~Valid(k)) => pc # "raised"

\* C3: exactly min(len(text1), len(text2)) pairs are processed, pair i being
\* (text1[i], text2[i]), and the pairs the loop sees are those of the two
\* texts cut to the common length.
C3_Truncation ==
  LET n == Min2(Len(text1), Len(text2))
  IN /\ Len(log) <= n
     /\ LoopOver => Len(log) = n
     /\ \A k \in 1..Len(log) : log[k].ab = <<text1[k], text2[k]>>
     /\ Pairs = Zip(SubSeq(text1, 1, n), SubSeq(text2, 1, n))
     /\ Len(Pairs) = n

C3_Witness ==
  /\ LoopOver
  /\ Len(text1) # Len(text2)
  /\ Len(log) >= 2

\* C4: last_ymax starts at 0; a valid pair at index 0 is placed with its
\* minimum y at 0, a later one with its minimum y at last_ymax + space, and
\* right after the placement last_ymax is the placed solid's maximum y.
C4_Placement ==
  /\ (pc = "loop" /\ log = <<>>) => last_ymax = 0
  /\ \A k \in 1..Len(log) :
       Valid(k) =>
         log[k].box.ymin = (IF k = 1 THEN 0 ELSE log[k].mark0 + space)
  /\ pc = "peg" => last_ymax = log[Len(log)].box.ymax

C4_Witness ==
  /\ pc = "peg"
  /\ Len(log) >= 2
  /\ Valid(1)
  /\ space > 0
  /\ log[Len(log)].box.ymin = log[Len(log)].mark0 + space

\* C5: the pair solids are in the assembly in increasing index order and no
\* two of them overlap on the stacking axis, for every allowed spacing.
C5_OrderedNoOverlap ==
  \A p \in DOMAIN res : \A q \in DOMAIN res :
    (p < q /\ res[p].kind = "pair" /\ res[q].kind = "pair") =>
      /\ res[p].ind < res[q].ind
      /\ res[p].box.ymax <= res[q].box.ymin

C5_Witness ==
  /\ pc = "loop"
  /\ \E p \in DOMAIN res : \E q \in DOMAIN res :
       /\ p < q /\ res[p].kind = "pair" /\ res[q].kind = "pair"
       /\ res[q].ind > res[p].ind + 1
  /\ space_per = 0

\* C6 as stated: last_ymax never decreases and every processed pair, the
\* first one included, raises it by at least space.
C6_EveryPairRaisesBySpace ==
  \A k \in 1..Len(log) :
    Complete(k) => MarkAfter(k) - log[k].mark0 >= space

\* C6 amended: last_ymax never decreases; every skipped pair and every valid
\* pair after index 0 raises it by at least space; a valid pair at index 0
\* is placed without a leading gap and raises it by at least the extent of
\* its solid, which can be less than space.
C6_MarkMonotonic ==
  /\ \A k \in 1..Len(log) :
       /\ Valid(k) => log[k].box.ymax >= log[k].mark0
       /\ Complete(k) =>
            /\ MarkAfter(k) >= log[k].mark0
            /\ (k > 1 \/ ~Valid(k)) => MarkAfter(k) - log[k].mark0 >= space
            /\ (k = 1 /\ Valid(k)) =>
                 MarkAfter(k) - log[k].mark0 >= ylen(log[k].box)
  /\ Len(log) > 0 => last_ymax >= log[Len(log)].mark0

C6_Witness ==
  /\ Len(log) >= 3
  /\ pc = "loop"
  /\ Valid(1) /\ ~Valid(2) /\ Valid(3)
  /\ MarkAfter(1) - log[1].mark0 < space
  /\ MarkAfter(3) - log[3].mark0 >= space

\* the mask has a character other than '_' at index k-1
Requested(k) == k <= Len(extrab_mask) /\ extrab_mask[k] # "_"

C8_PegCount ==
  pc # "peg" =>
    /\ Cardinality({ p \in DOMAIN res : res[p].kind = "peg" })
         = Cardinality({ k \in 1..Len(log) : Valid(k) /\ Requested(k) })
    /\ \A k \in 1..Len(log) : ~Valid(k) => PegsOf(k - 1) = {}
    /\ \A p \in DOMAIN res :
         res[p].kind = "peg" =>
           \E q \in DOMAIN res :
             /\ res[q].kind = "pair" /\ res[q].ind = res[p].ind
             /\ res[q].tv = res[p].tv

\* C9: an index at or beyond the end of a too short mask gets no peg, raises
\* nothing, and its pair stays a valid placed pair (no skip gap is applied).
C9_ShortMaskInactive ==
  \A k \in 1..Len(log) :
    (Complete(k) /\ Valid(k) /\ k > Len(extrab_mask)) =>
      /\ log[k].out = "placed"
      /\ PegsOf(k - 1) = {}
      /\ Cardinality(PartsOf(k - 1)) = 1
      /\ MarkAfter(k) = log[k].box.ymax

C9_Witness ==
  /\ pc = "loop"
  /\ Len(extrab_mask) = 1 /\ extrab_mask[1] = "X"
  /\ Len(log) >= 2
  /\ Valid(2)
  /\ space > 0

\* C10: the base plate is a box of (bbox.xlen + 2*b_pad) by
\* (bbox.ylen + 2*b_pad) by b_h, bbox being the bounding box of the placed
\* pair solids and pegs, with z from -b_h to 0; the final translation keeps
\* z, so the exported plate has its bottom at z = -b_h.
Plate(parts) == parts[Len(parts)].box

Others(parts) == SubSeq(parts, 1, Len(parts) - 1)

PlateAsClaimed(parts) ==
  /\ parts[Len(parts)].kind = "base"
  /\ \A p \in 1..(Len(parts) - 1) : parts[p].kind # "base"
  /\ xlen(Plate(parts)) = xlen(BoundingBox(Others(parts))) + 2 * Ticks(b_pad)
  /\ ylen(Plate(parts)) = ylen(BoundingBox(Others(parts))) + 2 * Ticks(b_pad)
  /\ Plate(parts).zmin = 0 - Ticks(b_h)
  /\ Plate(parts).zmax = 0

C10_BasePlate ==
  /\ pc \in {"final", "export", "export2", "done"} => PlateAsClaimed(res)
  /\ \A f \in FileNames : files[f].whole => PlateAsClaimed(files[f].parts)

C10_Witness ==
  /\ pc = "done"
  /\ b_h > 0 /\ b_pad > 0
  /\ \E p \in DOMAIN res : res[p].kind = "peg"
  /\ files[OutName(save)] = FileOf(res)
  /\ Plate(res).zmin < 0

\* ------------------------------------------- reading the kernel requests
\* line 80 returned a bounding box, so the box of line 83 was requested
BoxCalled == b_box # NoBox

PlateL == xlen(b_box) + Ticks(b_pad) * 2

PlateW == ylen(b_box) + Ticks(b_pad) * 2

\* the box was built, so the fillet of line 86 was requested
FilletCalled == BoxCalled /\ ~BoxRaises(PlateL, PlateW, Ticks(b_h))

\* C11: the fillet radius passed to the kernel never exceeds half of the
\* plate's shorter horizontal dimension.
C11_FilletWithinHalf ==
  FilletCalled => 2 * FilletRadius(b_box, b_fil_per) <= Min2(PlateL, PlateW)

\* C12: no degenerate request reaches the kernel: no zero-sized box, and no
\* fillet with a zero or too large radius.
C12_NoDegenerateRequest ==
  /\ BoxCalled => (PlateL > 0 /\ PlateW > 0 /\ Ticks(b_h) > 0)
  /\ FilletCalled =>
       /\ FilletRadius(b_box, b_fil_per) > 0
       /\ FilletRadius(b_box, b_fil_per) * 2 <= Min2(PlateL, PlateW)

\* the box of part p before the final translation
BeforeFinal(p) ==
  IF res[p].kind = "pair" THEN log[res[p].ind + 1].box
  ELSE IF res[p].kind = "peg"
    THEN PegBox(extrab_rad, extrab_h, log[res[p].ind + 1].tv)
  ELSE BasePlate(b_box, b_pad, b_h)

Finalized == pc \in {"export", "export2", "done"}

\* C13 as stated: the final translation subtracts half of the assembly's
\* extent on the non-stacking axis (x) along that axis, and nothing else.
C13_ShiftOnNonStackingAxis ==
  Finalized =>
    \A p \in DOMAIN res :
      res[p].box = Translate(BeforeFinal(p), <<0 - (xlen(b_box) \div 2), 0, 0>>)

\* C13 amended: the final translation moves the merged compound along the
\* stacking axis (y) by minus half of the assembly's y extent and applies no
\* other translation (x and z are unchanged); the assembly ends up centred
\* on y = 0 exactly when its bounding box started at y = 0.
C13_ShiftOnStackingAxis ==
  Finalized =>
    /\ \A p \in DOMAIN res :
         res[p].box = Translate(BeforeFinal(p), <<0, 0 - (ylen(b_box) \div 2), 0>>)
    /\ LET a == BoundingBox(Others(res))
       IN /\ a.ymin + a.ymax = 2 * b_box.ymin
          /\ a.xmin = b_box.xmin /\ a.xmax = b_box.xmax
          /\ a.zmin = b_box.zmin /\ a.zmax = b_box.zmax

C13_Witness ==
  /\ pc = "done"
  /\ b_box.ymin # 0
  /\ xlen(b_box) # ylen(b_box)
  /\ \E p \in DOMAIN res : res[p].kind = "peg"

\* an export of this call raised: the compound was finalized and pc = "raised"
ExportFailed == pc = "raised" /\ \E p \in DOMAIN res : res[p].kind = "base"

\* C14: after an export failed, the preview file and the output file each
\* hold the complete compound of this render or what they held before the
\* render (nothing: every script run starts by removing them), never a
\* partial file.
C14_NoPartialOutput ==
  ExportFailed =>
    \A f \in {"file_display.stl", OutName(save)} :
      files[f] = FileOf(res) \/ files[f] = NoFile

\* the render of session s is between its start and its return
InFlight(s) == run[s] \in {"build", "export", "export2", "return"}

\* C15: renders are serialized: at most one build is in flight at any time.
C15_OneBuildInFlight ==
  \A s, t \in Sessions : (InFlight(s) /\ InFlight(t)) => s = t

\* C20: a render starts only in a script run caused by a Render click,
\* whatever the outcome of the renders before it, and after a completed
\* render the flags are render_requested = FALSE, rendering_complete = TRUE.
C20_OnlyClickStartsRender ==
  \A s \in Sessions :
    /\ run[s] = "build" => cause[s] = "click"
    /\ (run[s] = "wait" /\ last[s] = "completed") =>
         (~render_requested[s] /\ rendering_complete[s])

\* C17: every peg in the assembly is a cylinder of radius extrab_rad and of
\* height extrab_h.
C17_PegAsRequested ==
  \A p \in DOMAIN res :
    res[p].kind = "peg" =>
      /\ xlen(res[p].box) = 2 * Ticks(extrab_rad)
      /\ ylen(res[p].box) = 2 * Ticks(extrab_rad)
      /\ res[p].box.zmax - res[p].box.zmin = Ticks(extrab_h)

\* C18: on x and on y the base plate reaches exactly b_pad beyond the minimum
\* and beyond the maximum of the bounding box of the assembly.
C18_SymmetricMargin ==
  pc \in {"final", "export", "export2", "done"} =>
    LET a == BoundingBox(Others(res))
    IN /\ Plate(res).xmin = a.xmin - Ticks(b_pad)
       /\ Plate(res).xmax = a.xmax + Ticks(b_pad)
       /\ Plate(res).ymin = a.ymin - Ticks(b_pad)
       /\ Plate(res).ymax = a.ymax + Ticks(b_pad)

\* C19: a finished iteration either added its pair solid (and its peg, if
\* one was requested) and left the mark at the solid's maximum extent, or
\* added nothing and advanced the mark by exactly 1.5 times space.
C19_OneOutcomePerIteration ==
  \A k \in 1..Len(log) :
    Complete(k) =>
      \/ /\ \E p \in PartsOf(k - 1) : res[p].kind = "pair"
         /\ Requested(k) => PegsOf(k - 1) # {}
         /\ MarkAfter(k) = log[k].box.ymax
      \/ /\ PartsOf(k - 1) = {}
         /\ MarkAfter(k) = log[k].mark0 + SkipGap(space)

\* a second call has finished after a first one with the same arguments
SecondDone == pc = "done" /\ first.n = 1 /\ params = first.params

\* C16 as stated: two calls of dual_text with identical arguments end with
\* final solids of identical bounding boxes, whatever happened in between.
C16_SameArgsSameBox == SecondDone => BoundingBox(res) = first.bbox

\* C16 amended: two calls of dual_text with identical arguments and the same
\* value of the global fontsize (hence of extr), the kernel answering equal
\* requests equally, end with final solids of identical bounding boxes;
\* nothing else that a call leaves behind reaches the next one.
C16_SameArgsSameFontSameBox ==
  (SecondDone /\ fontsize = first.fontsize) => BoundingBox(res) = first.bbox

C16_Witness ==
  /\ SecondDone
  /\ fontsize = first.fontsize
  /\ last_ymax > 0
  /\ \E k \in DOMAIN log : ~Valid(k)
  /\ \E k \in DOMAIN log : Valid(k)
  /\ \E p \in DOMAIN res : res[p].kind = "peg"
====
